---------------------------- MODULE Spec2Model ----------------------------
(* Model of packages/av-cliper/src/chromakeyCustom.ts: the closure returned  *)
(* by createColorCorrection, its lazily created WebGL state, the LUT upload  *)
(* and the fragment shader's per-pixel arithmetic.                           *)
(*                                                                           *)
(* A frame is modelled by one pixel (a frame filled with a constant colour), *)
(* its declared dimensions and, for a VideoFrame, timestamp and duration.    *)
(* The body of the returned async function is split into the steps below;    *)
(* `running` is the JavaScript thread: a call holds it from its invocation   *)
(* until it returns, throws or reaches a point where the code suspends.      *)
EXTENDS Integers, Sequences, FiniteSets, TLC

-----------------------------------------------------------------------------
(* Bounds of the model *)

MaxCalls == 2

-----------------------------------------------------------------------------
(* Program constants *)

\* width of a LUT texture (texImage2D(..., 256, 1, ...))
LUTSize == 256
\* a closure variable that is null / a VideoFrame duration that is null
NULL == -1
\* the `undefined` handed to VideoFrameInit.duration by `?? undefined`
UNDEFINED == -2
\* range of gl.UNSIGNED_BYTE
ByteMax == 255

-----------------------------------------------------------------------------
(* Caller-supplied curves: 256 samples each, a sample being the rational    *)
(* n/d given as <<n, d>> (JavaScript numbers that need not be integers).    *)

Identity == [i \in 1..LUTSize |-> <<i - 1, 1>>]
Halving == [i \in 1..LUTSize |-> <<i - 1, 2>>]
\* a contrast curve (2x - 128) evaluated without clamping: -128 .. 382
Contrast == [i \in 1..LUTSize |-> <<2 * (i - 1) - 128, 1>>]
\* opts.masterPolynomial not given: `new Uint8Array(undefined)` is empty
Absent == << >>

CurveOf(name) ==
    CASE name = "identity" -> Identity
      [] name = "halving" -> Halving
      [] name = "contrast" -> Contrast
      [] OTHER -> Absent

\* IColorCorrectionOpts values the model constructs pipelines with
OptsSet ==
    { [masterPolynomial |-> "identity", redPolynomial |-> "identity",
       greenPolynomial |-> "identity", bluePolynomial |-> "identity"],
      [masterPolynomial |-> "identity", redPolynomial |-> "halving",
       greenPolynomial |-> "halving", bluePolynomial |-> "halving"],
      [masterPolynomial |-> "halving", redPolynomial |-> "contrast",
       greenPolynomial |-> "identity", bluePolynomial |-> "halving"],
      [masterPolynomial |-> "absent", redPolynomial |-> "identity",
       greenPolynomial |-> "identity", bluePolynomial |-> "identity"] }

-----------------------------------------------------------------------------
(* Frames (TImgSource) *)

PixelA == <<200, 100, 50, 255>>
PixelB == <<10, 20, 30, 255>>
PixelC == <<0, 255, 128, 64>>

VideoFrameOf(w, h, ts, dur, px) ==
    [kind |-> "VideoFrame", width |-> w, height |-> h,
     timestamp |-> ts, duration |-> dur, px |-> px]

ImageBitmapOf(w, h, px) ==
    [kind |-> "ImageBitmap", width |-> w, height |-> h,
     timestamp |-> NULL, duration |-> NULL, px |-> px]

NoFrame ==
    [kind |-> "none", width |-> 0, height |-> 0,
     timestamp |-> NULL, duration |-> NULL, px |-> <<0, 0, 0, 0>>]

\* frames the caller passes to the pipeline
Frames ==
    { VideoFrameOf(2, 2, 1000, NULL, PixelA),
      VideoFrameOf(2, 2, 2000, 33, PixelB),
      VideoFrameOf(4, 2, 3000, 0, PixelC),
      ImageBitmapOf(2, 2, PixelB),
      ImageBitmapOf(4, 2, PixelA) }

IsVideoFrame(f) == f.kind = "VideoFrame"

\* getSourceWH: codedWidth/codedHeight of a VideoFrame, width/height otherwise
getSourceWH(f) == <<f.width, f.height>>

-----------------------------------------------------------------------------
(* new Uint8Array(data): each number is truncated toward zero and taken      *)
(* modulo 256 (ToUint8); an absent array gives an empty one.                 *)

Trunc(s) == IF s[1] >= 0 THEN s[1] \div s[2] ELSE -((-s[1]) \div s[2])

ToUint8(s) == Trunc(s) % (ByteMax + 1)

Uint8Array(data) == [i \in 1..Len(data) |-> ToUint8(data[i])]


-----------------------------------------------------------------------------
(* Texture images. A texture holds an RGBA image (the input texture; `src`  *)
(* is the call whose frame was uploaded, 0 for the initial pixel), a         *)
(* LUMINANCE row of 256 bytes (a LUT), or no image at all.                   *)

RGBAImage(px, src) == [kind |-> "rgba", px |-> px, data |-> << >>, src |-> src]

LumImage(bytes) == [kind |-> "lum", px |-> <<0, 0, 0, 0>>, data |-> bytes, src |-> 0]

NoImage == [kind |-> "none", px |-> <<0, 0, 0, 0>>, data |-> << >>, src |-> 0]

\* createLUTTexture's texImage2D: a 256x1 LUMINANCE/UNSIGNED_BYTE upload of
\* new Uint8Array(data). A view shorter than 256 bytes is INVALID_OPERATION
\* (reported through gl.getError, not thrown) and leaves the texture without
\* an image.
createLUTTexture(data) ==
    IF Len(Uint8Array(data)) < LUTSize
    THEN NoImage
    ELSE LumImage(SubSeq(Uint8Array(data), 1, LUTSize))

-----------------------------------------------------------------------------
(* The fragment shader. A channel value travels as the rational <<n, d>> in  *)
(* byte units (the shader's float times 255).                                *)

\* texture(lut, vec2(x, 0.5)).r on a 256-texel row with LINEAR filtering and
\* CLAMP_TO_EDGE: texel position x/255*256 - 1/2 = P/Q, interpolating the two
\* neighbouring texels. A texture without an image samples as (0, 0, 0, 1).
SampleLUT(img, x) ==
    IF img.kind # "lum" THEN <<0, 1>>
    ELSE LET P == 2 * LUTSize * x[1] - ByteMax * x[2]
             Q == 2 * ByteMax * x[2]
         IN IF P <= 0 THEN <<img.data[1], 1>>
            ELSE IF P >= (LUTSize - 1) * Q THEN <<img.data[LUTSize], 1>>
            ELSE LET i0 == P \div Q
                     r == P % Q
                 IN <<img.data[i0 + 1] * (Q - r) + img.data[i0 + 2] * r, Q>>

\* writing a float colour to the RGBA8 drawing buffer: round to nearest
Quantize(x) ==
    LET v == (2 * x[1] + x[2]) \div (2 * x[2])
    IN IF v < 0 THEN 0 ELSE IF v > ByteMax THEN ByteMax ELSE v

\* texture(frameTexture, v_texCoord)
SampleFrame(img) == IF img.kind = "rgba" THEN img.px ELSE <<0, 0, 0, ByteMax>>

\* main() of the fragment shader: master LUT first, then the channel's LUT
FragColor(frameImg, masterImg, redImg, greenImg, blueImg) ==
    LET color == SampleFrame(frameImg)
        m_r == SampleLUT(masterImg, <<color[1], 1>>)
        m_g == SampleLUT(masterImg, <<color[2], 1>>)
        m_b == SampleLUT(masterImg, <<color[3], 1>>)
        r == SampleLUT(redImg, m_r)
        g == SampleLUT(greenImg, m_g)
        b == SampleLUT(blueImg, m_b)
    IN <<Quantize(r), Quantize(g), Quantize(b), color[4]>>

-----------------------------------------------------------------------------
(* Output construction *)

\* C5 mutant: `imgSource.duration || undefined` drops a duration of 0
DurationInitFalsy(d) == IF d = NULL \/ d = 0 THEN UNDEFINED ELSE d

\* `duration: imgSource.duration ?? undefined`
DurationInit(d) == IF d = NULL THEN UNDEFINED ELSE d

\* new VideoFrame(cvs, {alpha: 'keep', timestamp, duration}): the canvas'
\* size and pixels; a duration that is not given reads back as null
NewVideoFrame(wh, px, ts, durInit) ==
    VideoFrameOf(wh[1], wh[2], ts,
                 IF durInit = UNDEFINED THEN NULL ELSE durInit, px)

\* createImageBitmap(cvs, ...): a copy of the canvas' bitmap
CreateImageBitmap(wh, px) == ImageBitmapOf(wh[1], wh[2], px)

\* C3 mutant: the input is closed in a `finally`, also when the constructor threw
ClosesInputFinally(f, constructed) == IsVideoFrame(f)

\* `imgSource.close()` follows `new VideoFrame(...)` in the VideoFrame branch
\* only: it is reached when the constructor returned
ClosesInput(f, constructed) == IsVideoFrame(f) /\ constructed

-----------------------------------------------------------------------------
(* State *)

VARIABLES
    opts,              \* the IColorCorrectionOpts captured by the closure
    cvs,               \* closure variables of createColorCorrection
    gl,
    texture,
    masterLUTTexture,
    redLUTTexture,
    greenLUTTexture,
    blueLUTTexture,
    cvsWH,             \* cvs.width, cvs.height
    cvsPx,             \* the canvas' drawing buffer
    program,           \* the program in use in the context `gl`
    unit,              \* texture bound to TEXTURE_2D of each texture unit
    activeUnit,        \* gl.activeTexture
    texImage,          \* image of each texture of the context `gl`
    nextId,            \* identity of the next object created
    ncalls,            \* calls of the returned function so far
    call,              \* per call: position, frame, outcome, counters
    running            \* the call executing on the thread, 0 when none

closureVars ==
    <<cvs, gl, texture, masterLUTTexture, redLUTTexture, greenLUTTexture,
      blueLUTTexture>>

glVars == <<cvsWH, cvsPx, program, unit, activeUnit, texImage, nextId>>

vars == <<opts, closureVars, glVars, ncalls, call, running>>

Calls == 1..MaxCalls

Units == 0..4

IdleCall ==
    [pc |-> "idle", frame |-> NoFrame, result |-> NoFrame, err |-> "",
     inits |-> 0, draws |-> 0, closes |-> 0, reads |-> {}]

Init ==
    /\ opts \in OptsSet
    /\ cvs = NULL
    /\ gl = NULL
    /\ texture = NULL
    /\ masterLUTTexture = NULL
    /\ redLUTTexture = NULL
    /\ greenLUTTexture = NULL
    /\ blueLUTTexture = NULL
    /\ cvsWH = <<0, 0>>
    /\ cvsPx = <<0, 0, 0, 0>>
    /\ program = NULL
    /\ unit = [u \in Units |-> NULL]
    /\ activeUnit = 0
    /\ texImage = << >>
    /\ nextId = 1
    /\ ncalls = 0
    /\ call = [c \in Calls |-> IdleCall]
    /\ running = 0

-----------------------------------------------------------------------------
(* Scheduling. The body of the async function contains no `await`: it runs  *)
(* from the initialization check to its return without yielding the thread. *)
(* In the still-image branch it returns the promise of createImageBitmap,   *)
(* which settles later.                                                      *)

\* C9 mutant: an `await` between the upload and the LUT binding
SuspendsAfterUpload(p) == p \in {"pending", "bind"}

Suspends(p) == p = "pending"

Finished(p) == p \in {"done", "failed"}

\* who holds the thread once call c is at position p
Yield(c, p) == IF Finished(p) \/ Suspends(p) THEN 0 ELSE c

\* call c may take its next step
CanStep(c) == running = c \/ (running = 0 /\ Suspends(call[c].pc))

\* `throw` inside call c: the promise rejects, nothing else changes
Throw(c, e) ==
    /\ call' = [call EXCEPT ![c].pc = "failed", ![c].err = e]
    /\ running' = Yield(c, "failed")

\* image of the texture bound to unit u, for bindings un and images ti
Bound(u, un, ti) == IF un[u] \in DOMAIN ti THEN ti[un[u]] ELSE NoImage

\* gl.drawArrays(gl.TRIANGLES, 0, 6): the quad covers the viewport, every
\* pixel is the fragment shader's output for the textures bound to units 0..4
\* (the uniforms frameTexture, masterLUT, redLUT, greenLUT, blueLUT)
DrawArrays(un, ti) ==
    FragColor(Bound(0, un, ti), Bound(1, un, ti), Bound(2, un, ti),
              Bound(3, un, ti), Bound(4, un, ti))

-----------------------------------------------------------------------------
(* The returned async function, step by step *)

\* the caller invokes the returned function with a frame
Invoke(f) ==
    /\ running = 0
    /\ ncalls < MaxCalls
    /\ ncalls' = ncalls + 1
    /\ call' = [call EXCEPT ![ncalls + 1] = [IdleCall EXCEPT !.pc = "check", !.frame = f]]
    /\ running' = ncalls + 1
    /\ UNCHANGED <<opts, closureVars, glVars>>

\* C1 mutant: the initialization check always passes
NeedsInitEveryCall == TRUE

\* `if (cvs == null || gl == null || texture == null)`
NeedsInit == cvs = NULL \/ gl = NULL \/ texture = NULL

\* initCvs returned: the destructuring assignment sets cvs, gl and the four
\* LUT textures. The new context has its own textures and bindings; each
\* createLUTTexture binds its texture to the active unit (unit 0).
InitCvsOk(c) ==
    /\ cvs' = nextId
    /\ gl' = nextId + 1
    /\ program' = nextId + 2
    /\ masterLUTTexture' = nextId + 3
    /\ redLUTTexture' = nextId + 4
    /\ greenLUTTexture' = nextId + 5
    /\ blueLUTTexture' = nextId + 6
    /\ nextId' = nextId + 7
    /\ cvsWH' = getSourceWH(call[c].frame)
    /\ cvsPx' = <<0, 0, 0, 0>>
    /\ texImage' =
         (nextId + 3 :> createLUTTexture(CurveOf(opts.masterPolynomial))) @@
         (nextId + 4 :> createLUTTexture(CurveOf(opts.redPolynomial))) @@
         (nextId + 5 :> createLUTTexture(CurveOf(opts.greenPolynomial))) @@
         (nextId + 6 :> createLUTTexture(CurveOf(opts.bluePolynomial)))
    /\ activeUnit' = 0
    /\ unit' = [u \in Units |-> IF u = 0 THEN nextId + 6 ELSE NULL]
    /\ call' = [call EXCEPT ![c].pc = "initTexture", ![c].inits = @ + 1]
    /\ running' = Yield(c, "initTexture")
    /\ UNCHANGED <<opts, texture, ncalls>>

\* the errors initCvs throws before it returns anything
InitCvsErrors ==
    {"Cant create gl context", "An error occurred compiling the shaders",
     "Unable to initialize the shader program"}

InitCvs(c) ==
    /\ CanStep(c)
    /\ call[c].pc = "check"
    /\ NeedsInit
    /\ \/ InitCvsOk(c)
       \/ /\ \E e \in InitCvsErrors : Throw(c, e)
          /\ UNCHANGED <<opts, closureVars, glVars, ncalls>>

\* the pipeline is initialized: the `if` body is skipped
Reuse(c) ==
    /\ CanStep(c)
    /\ call[c].pc = "check"
    /\ ~NeedsInit
    /\ call' = [call EXCEPT ![c].pc = "upload"]
    /\ running' = Yield(c, "upload")
    /\ UNCHANGED <<opts, closureVars, glVars, ncalls>>

\* `texture = initTexture(gl)`: a texture holding one blue pixel, bound to
\* the active unit, or `throw Error('Create WebGL texture error')`
InitTexture(c) ==
    /\ CanStep(c)
    /\ call[c].pc = "initTexture"
    /\ \/ /\ texture' = nextId
          /\ nextId' = nextId + 1
          /\ unit' = [unit EXCEPT ![activeUnit] = nextId]
          /\ texImage' = (nextId :> RGBAImage(<<0, 0, ByteMax, ByteMax>>, 0)) @@ texImage
          /\ call' = [call EXCEPT ![c].pc = "upload"]
          /\ running' = Yield(c, "upload")
          /\ UNCHANGED <<opts, cvs, gl, masterLUTTexture, redLUTTexture,
                         greenLUTTexture, blueLUTTexture, cvsWH, cvsPx,
                         program, activeUnit, ncalls>>
       \/ /\ Throw(c, "Create WebGL texture error")
          /\ UNCHANGED <<opts, closureVars, glVars, ncalls>>

\* gl.activeTexture(gl.TEXTURE0); updateTexture(gl, imgSource, texture):
\* bind the input texture, upload the frame (texImage2D throws on a source
\* it cannot read), and draw
UpdateTexture(c) ==
    /\ CanStep(c)
    /\ call[c].pc = "upload"
    /\ activeUnit' = 0
    /\ unit' = [unit EXCEPT ![0] = texture]
    /\ \/ /\ texImage' = [texImage EXCEPT ![texture] = RGBAImage(call[c].frame.px, c)]
          /\ cvsPx' = DrawArrays(unit', texImage')
          /\ call' = [call EXCEPT ![c].pc = "bind",
                                  ![c].draws = @ + 1,
                                  ![c].reads = @ \cup {Bound(0, unit', texImage').src}]
          /\ running' = Yield(c, "bind")
       \/ /\ Throw(c, "texImage2D")
          /\ UNCHANGED <<texImage, cvsPx>>
    /\ UNCHANGED <<opts, closureVars, cvsWH, program, nextId, ncalls>>

\* units 1..4 get the four LUT textures
BindLUTs(c) ==
    /\ CanStep(c)
    /\ call[c].pc = "bind"
    /\ activeUnit' = 4
    /\ unit' = [unit EXCEPT ![1] = masterLUTTexture, ![2] = redLUTTexture,
                            ![3] = greenLUTTexture, ![4] = blueLUTTexture]
    /\ call' = [call EXCEPT ![c].pc = "draw"]
    /\ running' = Yield(c, "draw")
    /\ UNCHANGED <<opts, closureVars, cvsWH, cvsPx, program, texImage, nextId, ncalls>>

\* `gl.drawArrays(gl.TRIANGLES, 0, 6)` of the returned function
Draw(c) ==
    /\ CanStep(c)
    /\ call[c].pc = "draw"
    /\ cvsPx' = DrawArrays(unit, texImage)
    /\ call' = [call EXCEPT ![c].pc = "out",
                            ![c].draws = @ + 1,
                            ![c].reads = @ \cup {Bound(0, unit, texImage).src}]
    /\ running' = Yield(c, "out")
    /\ UNCHANGED <<opts, closureVars, cvsWH, program, unit, activeUnit, texImage,
                   nextId, ncalls>>

\* VideoFrame branch: construct the output frame (the constructor may throw),
\* close the input, return
OutputVideoFrame(c) ==
    /\ CanStep(c)
    /\ call[c].pc = "out"
    /\ IsVideoFrame(call[c].frame)
    /\ \E constructed \in BOOLEAN :
         LET f == call[c].frame
             closes == IF ClosesInput(f, constructed) THEN 1 ELSE 0
             p == IF constructed THEN "done" ELSE "failed"
         IN /\ call' = [call EXCEPT
                   ![c].pc = p,
                   ![c].err = IF constructed THEN "" ELSE "VideoFrame",
                   ![c].result = IF constructed
                                 THEN NewVideoFrame(cvsWH, cvsPx, f.timestamp,
                                                    DurationInit(f.duration))
                                 ELSE NoFrame,
                   ![c].closes = @ + closes]
            /\ running' = Yield(c, p)
    /\ UNCHANGED <<opts, closureVars, glVars, ncalls>>

\* still-image branch: `return createImageBitmap(cvs, ...)`; the bitmap is a
\* copy of the canvas taken now, the promise settles later
OutputImageBitmap(c) ==
    /\ CanStep(c)
    /\ call[c].pc = "out"
    /\ ~IsVideoFrame(call[c].frame)
    /\ call' = [call EXCEPT ![c].pc = "pending",
                            ![c].result = CreateImageBitmap(cvsWH, cvsPx)]
    /\ running' = Yield(c, "pending")
    /\ UNCHANGED <<opts, closureVars, glVars, ncalls>>

\* the promise of createImageBitmap fulfils: the call's promise resolves
Resolve(c) ==
    /\ CanStep(c)
    /\ call[c].pc = "pending"
    /\ call' = [call EXCEPT ![c].pc = "done"]
    /\ running' = Yield(c, "done")
    /\ UNCHANGED <<opts, closureVars, glVars, ncalls>>

Next ==
    \/ \E f \in Frames : Invoke(f)
    \/ \E c \in Calls : InitCvs(c)
    \/ \E c \in Calls : Reuse(c)
    \/ \E c \in Calls : InitTexture(c)
    \/ \E c \in Calls : UpdateTexture(c)
    \/ \E c \in Calls : BindLUTs(c)
    \/ \E c \in Calls : Draw(c)
    \/ \E c \in Calls : OutputVideoFrame(c)
    \/ \E c \in Calls : OutputImageBitmap(c)
    \/ \E c \in Calls : Resolve(c)

Spec == Init /\ [][Next]_vars

-----------------------------------------------------------------------------
(* Properties *)

\* the closure variables the initialization check reads are all set
Ready == cvs # NULL /\ gl # NULL /\ texture # NULL

Handles ==
    <<cvs, gl, program, texture, masterLUTTexture, redLUTTexture,
      greenLUTTexture, blueLUTTexture>>

LUTHandles == {masterLUTTexture, redLUTTexture, greenLUTTexture, blueLUTTexture}

LUTImages == [h \in LUTHandles \cap DOMAIN texImage |-> texImage[h]]

Produced(c) == call[c].pc = "done"

\* a sample as the specification stores it: truncated, clamped to 0..255
ClampByte(s) ==
    IF Trunc(s) < 0 THEN 0 ELSE IF Trunc(s) > ByteMax THEN ByteMax ELSE Trunc(s)

\* the value the curve `name` gives for the byte v
CurveAt(name, v) == ClampByte(CurveOf(name)[v + 1])

\* C1: while no call has failed, initCvs has run once, in the first call,
\* and once the pipeline is Ready it stays Ready with the same surface,
\* context, program, input texture, LUT textures and LUT contents.
C1_InitOnce ==
    /\ []((\A c \in Calls : call[c].pc # "failed") =>
            (\A c \in Calls :
               call[c].inits = IF c = 1 /\ call[c].pc \notin {"idle", "check"}
                               THEN 1 ELSE 0))
    /\ [][Ready => (Ready' /\ Handles' = Handles /\ LUTImages' = LUTImages)]_vars

C1_Witness ==
    /\ Produced(1) /\ Produced(2)
    /\ getSourceWH(call[1].frame) = getSourceWH(call[2].frame)
    /\ call[1].inits = 1 /\ call[2].inits = 0

\* C2: a call on an initialized pipeline whose frame's dimensions differ from
\* the surface's ends in failure and produces no output frame.
C2_DimensionMismatch ==
    \A c \in Calls :
        (Ready /\ Finished(call[c].pc) /\ getSourceWH(call[c].frame) # cvsWH)
            => (call[c].pc = "failed" /\ call[c].result = NoFrame)

\* C3: a video frame is closed exactly once by a call that produced its
\* output and not at all by a call that has not (yet) or that failed; an
\* image is never closed.
C3_ReleaseOnSuccessOnly ==
    \A c \in Calls :
        /\ call[c].closes =
             IF IsVideoFrame(call[c].frame) /\ Produced(c) THEN 1 ELSE 0
        /\ call[c].closes > 0 => call[c].result # NoFrame

C3_Witness ==
    \E c, d \in Calls :
        /\ IsVideoFrame(call[c].frame) /\ Produced(c) /\ call[c].closes = 1
        /\ IsVideoFrame(call[d].frame) /\ call[d].err = "VideoFrame"
        /\ call[d].closes = 0

\* C4: a call that got as far as building its output issued exactly one
\* draw call.
C4_OneDraw ==
    \A c \in Calls : call[c].pc \in {"out", "pending", "done"} => call[c].draws = 1

\* C5: the output of a video-frame call carries the input's timestamp and
\* duration (null for null).
C5_TimingCopied ==
    \A c \in Calls :
        (Produced(c) /\ IsVideoFrame(call[c].frame)) =>
            /\ call[c].result.kind = "VideoFrame"
            /\ call[c].result.timestamp = call[c].frame.timestamp
            /\ call[c].result.duration = call[c].frame.duration

C5_Witness ==
    \E c, d \in Calls :
        /\ Produced(c) /\ IsVideoFrame(call[c].frame) /\ call[c].frame.duration = NULL
        /\ Produced(d) /\ IsVideoFrame(call[d].frame) /\ call[d].frame.duration # NULL

\* C6: with four curves, every output pixel is channel(master(in)) per
\* colour channel and the input's alpha.
C6_MasterThenChannel ==
    \A c \in Calls :
        (Produced(c) /\ opts.masterPolynomial # "absent") =>
            LET in == call[c].frame.px
                m(v) == CurveAt(opts.masterPolynomial, v)
            IN call[c].result.px =
                 <<CurveAt(opts.redPolynomial, m(in[1])),
                   CurveAt(opts.greenPolynomial, m(in[2])),
                   CurveAt(opts.bluePolynomial, m(in[3])),
                   in[4]>>

\* C7: with three curves and no master curve, every output pixel is the
\* channel's own curve applied to the input channel, and the input's alpha.
C7_ThreeCurve ==
    \A c \in Calls :
        (Produced(c) /\ opts.masterPolynomial = "absent") =>
            LET in == call[c].frame.px
            IN call[c].result.px =
                 <<CurveAt(opts.redPolynomial, in[1]),
                   CurveAt(opts.greenPolynomial, in[2]),
                   CurveAt(opts.bluePolynomial, in[3]),
                   in[4]>>

\* the curve given for each LUT handle
CurveNameOf(h) ==
    CASE h = masterLUTTexture -> opts.masterPolynomial
      [] h = redLUTTexture -> opts.redPolynomial
      [] h = greenLUTTexture -> opts.greenPolynomial
      [] OTHER -> opts.bluePolynomial

\* C8: every sample a LUT texture stores is the caller's sample clamped to
\* 0..255.
C8_SamplesClamped ==
    \A h \in LUTHandles \cap DOMAIN texImage :
        \A i \in 1..Len(texImage[h].data) :
            texImage[h].data[i] = ClampByte(CurveOf(CurveNameOf(h))[i])

SyncPcs == {"check", "initTexture", "upload", "bind", "draw", "out"}

\* C9: at most one call is between its initialization check and its return,
\* between a call's upload and its draw the input texture holds that call's
\* frame, and every draw of a call read that call's own frame.
C9_NoInterleaving ==
    /\ Cardinality({c \in Calls : call[c].pc \in SyncPcs}) <= 1
    /\ \A c \in Calls :
         /\ call[c].reads \subseteq {c}
         /\ call[c].pc \in {"bind", "draw"} => Bound(0, unit, texImage).src = c

C9_Witness ==
    \E c, d \in Calls :
        /\ call[c].pc = "pending"
        /\ call[d].pc = "out" /\ call[d].draws = 2 /\ call[d].reads = {d}

\* C10: between calls the handles are all unset or all set.
C10_AllOrNothing ==
    running = 0 =>
        \/ \A i \in 1..Len(closureVars) : closureVars[i] = NULL
        \/ \A i \in 1..Len(closureVars) : closureVars[i] # NULL

=============================================================================
